---- MODULE Spec2Model ----
(***************************************************************************)
(* Weather collection and history API (Go, AWS Lambda).                    *)
(*                                                                         *)
(* Go strings are modelled as sequences of one-character strings, so that  *)
(* regular expressions, trimming, truncation, number parsing and the       *)
(* lexicographic comparison the table store applies to timestamps are all  *)
(* computed character by character.                                        *)
(*                                                                         *)
(* Time is an integer number of clock ticks since 2024-01-01T00:00:00Z.    *)
(* A tick is a fraction of a second (TicksPerSecond of them per second):   *)
(* time.Now() has a finer resolution than the second that Unix() and       *)
(* Format(time.RFC3339) keep.  The process runs with TZ=UTC (the Lambda    *)
(* runtime), so RFC3339 ends in "Z".  All times stay within the year 2024. *)
(***************************************************************************)
EXTENDS Integers, Sequences, FiniteSets, TLC

VARIABLES
    clock,        \* wall clock, in ticks
    ticks,        \* number of times the clock has advanced
    table,        \* DynamoDB table: a set of items, at most one per (id, timestamp)
    blobs,        \* S3 bucket: a set of objects [key, data]
    config,       \* collector: the configuration the process was started with
    process,      \* collector: "starting", "serving" or "exited"
    inv,          \* collector: the state of each invocation
    request,      \* history API: the request being served, or NoRequest
    response,     \* history API: the response to it, or NoResponse
    dynamoCalls,  \* the calls made to the table accessor, in order
    scanned,      \* history API: what the Scan of the table read, page by page
    cityIn,       \* sanitizeCityName: input
    cityOut       \* sanitizeCityName: output, or NotRun

vars == <<clock, ticks, table, blobs, config, process, inv, request, response,
          dynamoCalls, scanned, cityIn, cityOut>>

\* The state of the collector function.
collector == <<config, process, inv>>

----------------------------------------------------------------------------
(* Bounds of the model *)

MaxPeriodLen == 3     \* longest period string explored exhaustively
MaxCityLen == 3       \* longest city string explored exhaustively
MaxTicks == 2         \* clock advances per behaviour
MaxInvocations == 2   \* invocations of the collector in a behaviour
MaxItems == 3         \* items of a table that is drawn from a set
MaxCalls == 3         \* calls of the table accessor in a behaviour
TicksPerSecond == 2   \* clock resolution below the second

(* Program constants *)

MaxCityBytes == 50            \* len(city) > 50 => city[:50]
MaxHours == 168               \* hours > 0 && hours <= 168
DefaultHours == 6             \* case "6h": -6 * time.Hour
DayHours == 24                \* case "24h", "1d": -24 * time.Hour
TTLDays == 30                 \* now.Add(30 * 24 * time.Hour)

StatusOK == 200
StatusBadRequest == 400
StatusUnauthorized == 401
StatusMethodNotAllowed == 405
StatusInternalServerError == 500

Second == TicksPerSecond
Hour == 3600 * Second

\* Unix time of tick 0, 2024-01-01T00:00:00Z: 19723 days after 1970-01-01.
EpochUnix == 19723 * 86400

----------------------------------------------------------------------------
(* Characters and strings *)

Digits == <<"0", "1", "2", "3", "4", "5", "6", "7", "8", "9">>

DigitChars == {Digits[i] : i \in 1..10}

\* The value of a decimal digit character.
DigitVal(c) == (CHOOSE i \in 1..10 : Digits[i] = c) - 1

Letters == {"T", "o", "k", "y", "O", "s", "a", "h", "d", "b", "c", "Z"}

\* unicode.IsSpace over the characters of the model (strings.TrimSpace).
IsSpace(c) == c \in {" ", "\t", "\n", "\r", "\f"}

\* Byte value of a character: Go and DynamoDB compare strings bytewise.
Ord(c) ==
    CASE c = "\t" -> 9
      [] c = "\n" -> 10
      [] c = "\f" -> 12
      [] c = "\r" -> 13
      [] c = " " -> 32
      [] c = "!" -> 33
      [] c = "+" -> 43
      [] c = "-" -> 45
      [] c \in DigitChars -> 48 + DigitVal(c)
      [] c = ":" -> 58
      [] c = "O" -> 79
      [] c = "T" -> 84
      [] c = "Z" -> 90
      [] c = "a" -> 97
      [] c = "b" -> 98
      [] c = "c" -> 99
      [] c = "d" -> 100
      [] c = "h" -> 104
      [] c = "k" -> 107
      [] c = "o" -> 111
      [] c = "s" -> 115
      [] c = "y" -> 121

\* Go's s < t on strings, from position i on: bytewise lexicographic order.
RECURSIVE StrLessFrom(_, _, _)
StrLessFrom(s, t, i) ==
    IF i > Len(t) THEN FALSE
    ELSE IF i > Len(s) THEN TRUE
    ELSE IF s[i] # t[i] THEN Ord(s[i]) < Ord(t[i])
    ELSE StrLessFrom(s, t, i + 1)

StrLess(s, t) == StrLessFrom(s, t, 1)

StrLeq(s, t) == s = t \/ StrLess(s, t)

\* All strings over alphabet A of length at most n.
RECURSIVE StringsUpTo(_, _)
StringsUpTo(A, n) ==
    IF n = 0 THEN {<<>>}
    ELSE LET shorter == StringsUpTo(A, n - 1)
         IN  shorter \cup {Append(s, c) : s \in shorter, c \in A}

\* n copies of character c.
RECURSIVE Repeat(_, _)
Repeat(c, n) == IF n = 0 THEN <<>> ELSE <<c>> \o Repeat(c, n - 1)

\* fmt's %d of a non-negative integer.
RECURSIVE Itoa(_)
Itoa(n) ==
    IF n < 10 THEN <<Digits[n + 1]>>
    ELSE Append(Itoa(n \div 10), Digits[(n % 10) + 1])

\* n printed in exactly two digits (the 01, 02, 15, 04, 05 of a Go layout).
Pad2(n) == <<Digits[(n \div 10) + 1], Digits[(n % 10) + 1]>>

----------------------------------------------------------------------------
(* package time *)

\* t.Unix(): whole seconds since 1970, the sub-second part dropped.
Unix(t) == EpochUnix + (t \div TicksPerSecond)

\* Days of the months of 2024.
MonthDays == <<31, 29, 31, 30, 31, 30, 31, 31, 30, 31, 30, 31>>

\* Month (1..12) and day of month (1..) of the 0-based day d of the year.
RECURSIVE MonthDay(_, _)
MonthDay(d, m) ==
    IF d < MonthDays[m] THEN <<m, d + 1>> ELSE MonthDay(d - MonthDays[m], m + 1)

\* t.Format("2006")
FormatYear(t) == <<"2", "0", "2", "4">>

\* t.Format("01-02")
FormatMonthDay(t) ==
    LET md == MonthDay((t \div TicksPerSecond) \div 86400, 1)
    IN  Pad2(md[1]) \o <<"-">> \o Pad2(md[2])

\* t.Format(time.RFC3339) in UTC: 2006-01-02T15:04:05Z, seconds resolution.
FormatRFC3339(t) ==
    LET secs == t \div TicksPerSecond
        sod  == secs % 86400
    IN  FormatYear(t) \o <<"-">> \o FormatMonthDay(t) \o <<"T">>
        \o Pad2(sod \div 3600) \o <<":">> \o Pad2((sod % 3600) \div 60)
        \o <<":">> \o Pad2(sod % 60) \o <<"Z">>

----------------------------------------------------------------------------
(* cmd/weather-history-api: input validation *)

IsDigit(c) == c \in DigitChars

\* [a-zA-Z]
IsLetter(c) == (Ord(c) >= 65 /\ Ord(c) <= 90) \/ (Ord(c) >= 97 /\ Ord(c) <= 122)

\* \s of Go's regexp (RE2): [\t\n\f\r ]
IsRegexSpace(c) == c \in {"\t", "\n", "\f", "\r", " "}

\* A faulty pattern: ^(6h|24h|1d|[0-9]+)$, which leaves the range to the switch.
isValidPeriod_AnyNumber(period) ==
    \/ period \in {<<"6", "h">>, <<"2", "4", "h">>, <<"1", "d">>}
    \/ period # <<>> /\ \A i \in 1..Len(period) : IsDigit(period[i])

\* A faulty pattern: ^(6h|24h|1d|[1-9][0-9]|1[0-6][0-8])$, without the
\* one-digit alternative.
isValidPeriod_NoSingleDigit(period) ==
    \/ period \in {<<"6", "h">>, <<"2", "4", "h">>, <<"1", "d">>}
    \/ /\ Len(period) = 2
       /\ IsDigit(period[1]) /\ DigitVal(period[1]) >= 1
       /\ IsDigit(period[2])
    \/ /\ Len(period) = 3
       /\ period[1] = "1"
       /\ IsDigit(period[2]) /\ DigitVal(period[2]) <= 6
       /\ IsDigit(period[3]) /\ DigitVal(period[3]) <= 8

\* regexp.MatchString(`^(6h|24h|1d|[1-9]|[1-9][0-9]|1[0-6][0-8])$`, period)
isValidPeriod(period) ==
    \/ period = <<"6", "h">>
    \/ period = <<"2", "4", "h">>
    \/ period = <<"1", "d">>
    \/ /\ Len(period) = 1
       /\ IsDigit(period[1]) /\ DigitVal(period[1]) >= 1
    \/ /\ Len(period) = 2
       /\ IsDigit(period[1]) /\ DigitVal(period[1]) >= 1
       /\ IsDigit(period[2])
    \/ /\ Len(period) = 3
       /\ period[1] = "1"
       /\ IsDigit(period[2]) /\ DigitVal(period[2]) <= 6
       /\ IsDigit(period[3]) /\ DigitVal(period[3]) <= 8

\* The value of a string of decimal digits.
RECURSIVE DigitsVal(_)
DigitsVal(s) ==
    IF s = <<>> THEN 0
    ELSE 10 * DigitsVal(SubSeq(s, 1, Len(s) - 1)) + DigitVal(s[Len(s)])

\* strconv.Atoi: an optional sign, then one or more decimal digits.
Atoi(s) ==
    LET signed == s # <<>> /\ s[1] \in {"+", "-"}
        body   == IF signed THEN Tail(s) ELSE s
    IN  IF body = <<>> \/ \E i \in 1..Len(body) : ~IsDigit(body[i])
        THEN [ok |-> FALSE, n |-> 0]
        ELSE [ok |-> TRUE,
              n  |-> IF signed /\ s[1] = "-" THEN 0 - DigitsVal(body)
                     ELSE DigitsVal(body)]

\* strings.TrimSpace
RECURSIVE TrimLeft(_)
TrimLeft(s) == IF s # <<>> /\ IsSpace(Head(s)) THEN TrimLeft(Tail(s)) ELSE s

RECURSIVE TrimRight(_)
TrimRight(s) ==
    IF s # <<>> /\ IsSpace(s[Len(s)]) THEN TrimRight(SubSeq(s, 1, Len(s) - 1))
    ELSE s

TrimSpace(s) == TrimRight(TrimLeft(s))

\* The class the sanitizer keeps: the complement of [^a-zA-Z\s\-].
IsCityChar(c) == IsLetter(c) \/ IsRegexSpace(c) \/ c = "-"

\* regexp.MustCompile(`[^a-zA-Z\s\-]`).ReplaceAllString(city, "")
StripCity(s) == SelectSeq(s, IsCityChar)

\* A faulty sanitizer step: the length is not limited.
Truncate_Off(s) == s

\* if len(city) > 50 { city = city[:50] }
Truncate(s) == IF Len(s) > MaxCityBytes THEN SubSeq(s, 1, MaxCityBytes) ELSE s

sanitizeCityName(city) == Truncate(StripCity(TrimSpace(city)))

----------------------------------------------------------------------------
(* internal/models, internal/services: readings and records *)

Tokyo == <<"T", "o", "k", "y", "o">>
Osaka == <<"O", "s", "a", "k", "a">>

\* Weather.CityName of the configuration (CITY_NAME, default Tokyo).
DefaultCity == Tokyo

\* models.WeatherResponse, as the weather API returns it.  Temperatures and
\* wind speeds are in tenths; weather is the list of condition descriptions.
Readings ==
    { [name |-> Tokyo, temp |-> 255, humidity |-> 60, pressure |-> 1013,
       weather |-> <<"Clear sky">>, windSpeed |-> 35, country |-> "JP"],
      [name |-> Osaka, temp |-> 230, humidity |-> 65, pressure |-> 1015,
       weather |-> <<"Rain", "Mist">>, windSpeed |-> 28, country |-> "JP"],
      [name |-> Tokyo, temp |-> 180, humidity |-> 70, pressure |-> 1009,
       weather |-> <<>>, windSpeed |-> 12, country |-> "JP"],
      [name |-> Tokyo, temp |-> 262, humidity |-> 55, pressure |-> 1011,
       weather |-> <<"Clouds">>, windSpeed |-> 41, country |-> "JP"] }

\* A faulty identifier: the city alone.
RecordID_NoTime(name, now) == name

\* fmt.Sprintf("%s-%d", response.Name, now.Unix())
RecordID(name, now) == name \o <<"-">> \o Itoa(Unix(now))

\* A faulty expiry: thirty hours instead of thirty days.
RecordTTL_ThirtyHours(now) == Unix(now + TTLDays * Hour)

\* now.Add(30 * 24 * time.Hour).Unix()
RecordTTL(now) == Unix(now + TTLDays * 24 * Hour)

\* WeatherService.ConvertToWeatherRecord, with now the value of time.Now().
ConvertToWeatherRecord(reading, now) ==
    [id          |-> RecordID(reading.name, now),
     timestamp   |-> FormatRFC3339(now),
     cityName    |-> reading.name,
     temperature |-> reading.temp,
     description |-> IF Len(reading.weather) > 0 THEN reading.weather[1] ELSE "",
     humidity    |-> reading.humidity,
     pressure    |-> reading.pressure,
     windSpeed   |-> reading.windSpeed,
     country     |-> reading.country,
     createdAt   |-> now,
     ttl         |-> RecordTTL(now)]

\* WeatherService.ConvertToS3Data
ConvertToS3Data(reading, record) == [record |-> record, rawResponse |-> reading]

----------------------------------------------------------------------------
(* internal/handlers: the DynamoDB table *)

\* The primary key of the table: (id, timestamp).
ItemKey(item) == <<item.id, item.timestamp>>

\* A faulty PutItem: the item replaces the whole table.
PutItem_OnlyItem(tbl, item) == {item}

\* A faulty PutItem: the item is added, whatever the table holds.
PutItem_NoReplace(tbl, item) == tbl \cup {item}

\* PutItem: the item replaces whatever the table holds under its key.
PutItem(tbl, item) == {i \in tbl : ItemKey(i) # ItemKey(item)} \cup {item}

\* The numeric fields of models.WeatherRecord: attributes of type N.
\* The string fields (and createdAt) are attributes of type S, written here
\* as the string itself.

\* dynamodbattribute.MarshalMap of a models.WeatherRecord
MarshalMap(record) ==
    [record EXCEPT !.temperature = [N |-> @], !.humidity = [N |-> @],
                   !.pressure = [N |-> @], !.windSpeed = [N |-> @],
                   !.ttl = [N |-> @]]

IsNumber(av) == DOMAIN av = {"N"}

\* A faulty UnmarshalMap: every item is taken as a record.
UnmarshalMap_Lenient(item) == [ok |-> TRUE, record |-> item]

\* dynamodbattribute.UnmarshalMap into models.WeatherRecord: an attribute of
\* the wrong type (an S where a number is expected) is an error.
UnmarshalMap(item) ==
    IF /\ IsNumber(item.temperature) /\ IsNumber(item.humidity)
       /\ IsNumber(item.pressure) /\ IsNumber(item.windSpeed) /\ IsNumber(item.ttl)
    THEN [ok |-> TRUE,
          record |-> [item EXCEPT !.temperature = @.N, !.humidity = @.N,
                                  !.pressure = @.N, !.windSpeed = @.N, !.ttl = @.N]]
    ELSE [ok |-> FALSE, record |-> item]

\* DynamoDBHandler.StoreWeatherRecord: the record is marshalled and put; a
\* failed PutItem leaves the table as it was.
StoreWeatherRecord(tbl, record, ok) ==
    IF ok
    THEN [err |-> "", table |-> PutItem(tbl, MarshalMap(record))]
    ELSE [err |-> "failed to put item to DynamoDB", table |-> tbl]

\* GetItem: the items under the key (id, timestamp): one, or none.
GetItem(tbl, id, timestamp) == {i \in tbl : ItemKey(i) = <<id, timestamp>>}

\* DynamoDBHandler.GetWeatherRecord: the error of the call, "weather record
\* not found" when result.Item is nil, the error of UnmarshalMap, or the
\* record.
GetWeatherRecord(tbl, id, timestamp, ok) ==
    LET found == GetItem(tbl, id, timestamp)
    IN  IF ~ok THEN [err |-> "failed to get item from DynamoDB"]
        ELSE IF found = {} THEN [err |-> "weather record not found"]
        ELSE LET u == UnmarshalMap(CHOOSE i \in found : TRUE)
             IN  IF u.ok THEN [err |-> "", record |-> u.record]
                 ELSE [err |-> "failed to unmarshal weather record"]

\* A faulty filter: the bounds of the window are exclusive.
FilterMatches_Exclusive(item, city, startStr, endStr) ==
    /\ item.cityName = city
    /\ StrLess(startStr, item.timestamp)
    /\ StrLess(item.timestamp, endStr)

\* FilterExpression "cityName = :city AND #ts BETWEEN :start AND :end":
\* string equality and inclusive bytewise string comparison.
FilterMatches(item, city, startStr, endStr) ==
    /\ item.cityName = city
    /\ StrLeq(startStr, item.timestamp)
    /\ StrLeq(item.timestamp, endStr)

\* All orders of a finite set, as sequences.
Orderings(S) ==
    {f \in [1..Cardinality(S) -> S] : \A i, j \in 1..Cardinality(S) : f[i] = f[j] => i = j}

\* All ways to cut a non-empty sequence into consecutive non-empty pages.
RECURSIVE SplitsOf(_)
SplitsOf(seq) ==
    IF seq = <<>> THEN {<<>>}
    ELSE UNION {{<<SubSeq(seq, 1, k)>> \o rest :
                    rest \in SplitsOf(SubSeq(seq, k + 1, Len(seq)))} : k \in 1..Len(seq)}

\* What a Scan of the table may read: its items in any order, cut into pages
\* at any places (an empty table is read as one empty page).
ScanReads(tbl) ==
    IF tbl = {} THEN {<< <<>> >>}
    ELSE UNION {SplitsOf(o) : o \in Orderings(tbl)}

\* The pages of a Scan: the filter is applied to each page read.
ScanPages(reads, city, startStr, endStr) ==
    [p \in 1..Len(reads) |->
        SelectSeq(reads[p], LAMBDA item : FilterMatches(item, city, startStr, endStr))]

\* The page callback of GetWeatherHistory: append every item that
\* unmarshals, skip the others.
RECURSIVE AppendPage(_, _)
AppendPage(records, page) ==
    IF page = <<>> THEN records
    ELSE LET u == UnmarshalMap(Head(page))
         IN  AppendPage(IF u.ok THEN Append(records, u.record) ELSE records, Tail(page))

\* A faulty Scan loop: the callback stops the Scan after the first page.
DrainPages_FirstPage(records, pages) ==
    IF pages = <<>> THEN records ELSE AppendPage(records, Head(pages))

\* ScanPagesWithContext: the callback returns !lastPage, so every page is
\* visited, in order.
RECURSIVE DrainPages(_, _)
DrainPages(records, pages) ==
    IF pages = <<>> THEN records
    ELSE DrainPages(AppendPage(records, Head(pages)), Tail(pages))

\* less of the sort: records[i].Timestamp < records[j].Timestamp
TimestampLess(a, b) == StrLess(a.timestamp, b.timestamp)

\* One step of insertion sort: x moves left while it is less than its
\* left neighbour.
RECURSIVE InsertSorted(_, _)
InsertSorted(s, x) ==
    IF s # <<>> /\ TimestampLess(x, s[Len(s)])
    THEN Append(InsertSorted(SubSeq(s, 1, Len(s) - 1), x), s[Len(s)])
    ELSE Append(s, x)

\* A faulty GetWeatherHistory: the records are returned in scan order.
SortSlice_Off(s) == s

\* sort.Slice, which is an insertion sort for slices of up to 12 elements.
RECURSIVE SortSlice(_)
SortSlice(s) ==
    IF s = <<>> THEN <<>>
    ELSE InsertSorted(SortSlice(SubSeq(s, 1, Len(s) - 1)), s[Len(s)])

\* A faulty GetWeatherHistory: the error of the Scan is dropped and the
\* records of the pages read before it are returned.
GetWeatherHistory_PartialOnError(cityName, startTime, endTime, reads, scanErr) ==
    LET pages == ScanPages(reads, cityName, FormatRFC3339(startTime), FormatRFC3339(endTime))
    IN  [err |-> FALSE, records |-> SortSlice(DrainPages(<<>>, pages))]

\* DynamoDBHandler.GetWeatherHistory.  reads is what the Scan reads from the
\* table, scanErr whether the Scan fails.
GetWeatherHistory(cityName, startTime, endTime, reads, scanErr) ==
    LET startTimeStr == FormatRFC3339(startTime)
        endTimeStr   == FormatRFC3339(endTime)
        pages        == ScanPages(reads, cityName, startTimeStr, endTimeStr)
        records      == DrainPages(<<>>, pages)
    IN  IF scanErr THEN [err |-> TRUE, records |-> <<>>]
        ELSE [err |-> FALSE, records |-> SortSlice(records)]

----------------------------------------------------------------------------
(* cmd/weather-history-api: Handler.HandleRequest *)

\* The spellings of the API-key header name that a client may send.  Header
\* maps are total here: "" stands for a missing header, which is what a Go
\* map lookup of a missing key yields.
HeaderNames == {"X-API-Key", "x-api-key", "X-Api-Key", "X-API-KEY"}

CORSHeaders ==
    [h \in {"Access-Control-Allow-Origin", "Access-Control-Allow-Headers",
            "Access-Control-Allow-Methods", "Content-Type"} |->
        CASE h = "Access-Control-Allow-Origin" -> "*"
          [] h = "Access-Control-Allow-Headers" ->
                "Content-Type,X-Amz-Date,Authorization,X-Api-Key,X-Amz-Security-Token"
          [] h = "Access-Control-Allow-Methods" -> "GET,OPTIONS"
          [] h = "Content-Type" -> "application/json"]

\* Body: "" of the OPTIONS response.
EmptyBody == [empty |-> TRUE]

\* A faulty error response: it carries the content type alone.
ErrorResponse_NoCORS(status, msg) ==
    [statusCode |-> status,
     headers    |-> [h \in {"Content-Type"} |-> "application/json"],
     body       |-> [error |-> msg]]

\* events.APIGatewayProxyResponse with a body `{"error": msg}`
ErrorResponse(status, msg) ==
    [statusCode |-> status, headers |-> CORSHeaders, body |-> [error |-> msg]]

\* A faulty preflight test: the API-key check is applied to OPTIONS too.
IsPreflight_AfterKey(req) ==
    req.method = "OPTIONS" /\ ~(req.headers["X-API-Key"] = "" /\ req.headers["x-api-key"] = "")

\* if request.HTTPMethod == "OPTIONS": the CORS preflight
IsPreflight(req) == req.method = "OPTIONS"

\* A faulty method gate: POST is let through.
MethodAllowed_Post(req) == req.method \in {"GET", "POST"}

\* if request.HTTPMethod != "GET": method not allowed
MethodAllowed(req) == req.method = "GET"

\* The handler without its API-key check (validation left to API Gateway).
MissingAPIKey_Unchecked(headers) == FALSE

\* request.Headers["X-API-Key"] == "" && request.Headers["x-api-key"] == ""
MissingAPIKey(headers) == headers["X-API-Key"] = "" /\ headers["x-api-key"] = ""

\* period := request.QueryStringParameters["period"]; "" becomes "6h"
EffectivePeriod(req) == IF req.period = <<>> THEN <<"6", "h">> ELSE req.period

\* city := request.QueryStringParameters["city"]; "" becomes the configured
\* city; then sanitizeCityName.
EffectiveCity(req) ==
    sanitizeCityName(IF req.city = <<>> THEN DefaultCity ELSE req.city)

\* The switch on period: the number of hours of the window, or 0 when the
\* default branch rejects the period.
PeriodHours(period) ==
    IF period = <<"6", "h">> THEN DefaultHours
    ELSE IF period = <<"2", "4", "h">> \/ period = <<"1", "d">> THEN DayHours
    ELSE LET a == Atoi(period)
         IN  IF a.ok /\ a.n > 0 /\ a.n <= MaxHours THEN a.n ELSE 0

\* A faulty response: startTime repeats endTime.
HistoryResponse_NoWindow(records, period, startTime, endTime) ==
    [statusCode |-> StatusOK,
     headers    |-> CORSHeaders,
     body       |-> [statusCode |-> StatusOK,
                     message    |-> "Weather history retrieved successfully",
                     data       |-> records,
                     count      |-> Len(records),
                     period     |-> period,
                     startTime  |-> FormatRFC3339(endTime),
                     endTime    |-> FormatRFC3339(endTime)]]

\* The 200 response: WeatherHistoryResponse, marshalled into the body.
HistoryResponse(records, period, startTime, endTime) ==
    [statusCode |-> StatusOK,
     headers    |-> CORSHeaders,
     body       |-> [statusCode |-> StatusOK,
                     message    |-> "Weather history retrieved successfully",
                     data       |-> records,
                     count      |-> Len(records),
                     period     |-> period,
                     startTime  |-> FormatRFC3339(startTime),
                     endTime    |-> FormatRFC3339(endTime)]]

\* The part of HandleRequest after the period check: the window, the query
\* of the table and the response.  calls lists the GetWeatherHistory calls,
\* each with its arguments and whether its Scan of the table failed.
QueryAndRespond(req, now, reads, scanErr) ==
    LET period    == EffectivePeriod(req)
        city      == EffectiveCity(req)
        hours     == PeriodHours(period)
        endTime   == now
        startTime == endTime - hours * Hour
        got       == GetWeatherHistory(city, startTime, endTime, reads, scanErr)
    IN  IF hours = 0
        THEN [resp  |-> ErrorResponse(StatusBadRequest,
                 "Invalid period. Use '6h', '24h', or number of hours (1-168)"),
              calls |-> <<>>]
        ELSE [resp  |-> IF got.err
                        THEN ErrorResponse(StatusInternalServerError,
                                 "Failed to retrieve weather history")
                        ELSE HistoryResponse(got.records, period, startTime, endTime),
              calls |-> <<[city |-> city, startTime |-> startTime, endTime |-> endTime,
                           err |-> scanErr]>>]

\* Handler.HandleRequest of the history API.  now is the value of
\* time.Now(), reads what the Scan reads, scanErr whether the Scan fails.
HandleRequest(req, now, reads, scanErr) ==
    IF IsPreflight(req)
    THEN [resp  |-> [statusCode |-> StatusOK, headers |-> CORSHeaders, body |-> EmptyBody],
          calls |-> <<>>]
    ELSE IF ~MethodAllowed(req)
    THEN [resp  |-> ErrorResponse(StatusMethodNotAllowed, "Method not allowed"),
          calls |-> <<>>]
    ELSE IF MissingAPIKey(req.headers)
    THEN [resp  |-> ErrorResponse(StatusUnauthorized, "API key required"),
          calls |-> <<>>]
    ELSE IF ~isValidPeriod(EffectivePeriod(req))
    THEN [resp  |-> ErrorResponse(StatusBadRequest, "Invalid period parameter"),
          calls |-> <<>>]
    ELSE QueryAndRespond(req, now, reads, scanErr)

----------------------------------------------------------------------------
(* internal/handlers: the S3 bucket *)

\* A faulty key: no date partition.
S3Key_NoDate(id, now) ==
    <<"w", "e", "a", "t", "h", "e", "r", "-", "d", "a", "t", "a", "/">>
    \o id \o <<".", "j", "s", "o", "n">>

\* fmt.Sprintf("weather-data/%s/%s/%s.json", now.Format("2006"),
\*             now.Format("01-02"), data.ID), with now the time of the upload.
S3Key(id, now) ==
    <<"w", "e", "a", "t", "h", "e", "r", "-", "d", "a", "t", "a", "/">>
    \o FormatYear(now) \o <<"/">> \o FormatMonthDay(now) \o <<"/">> \o id
    \o <<".", "j", "s", "o", "n">>

\* PutObject: the object replaces whatever the bucket holds under its key.
PutObject(bucket, key, data) ==
    {o \in bucket : o.key # key} \cup {[key |-> key, data |-> data]}

----------------------------------------------------------------------------
(* State *)

NoRequest == [method |-> "none"]
NoResponse == [statusCode |-> 0]
NotRun == <<"(", "n", "o", "t", " ", "r", "u", "n", ")">>

\* The values NewHandler requires of the configuration: the weather API
\* key, the S3 bucket and the DynamoDB table.  "" is a value that is not set.
Configs ==
    [apiKey : {"", "k"}, bucket : {"", "weather-bucket"}, tableName : {"", "weather-table"}]

FullConfig == [apiKey |-> "k", bucket |-> "weather-bucket", tableName |-> "weather-table"]

\* The invocations of the collector, numbered in the order they begin.
Invocations == 1..MaxInvocations

NoReading == [name |-> <<>>]
NoRecord == [id |-> <<>>]

\* No request of the weather API has been made.
NoHTTP == [err |-> FALSE, status |-> 0, body |-> [decodes |-> FALSE, reading |-> NoReading]]

\* An invocation that has not begun: steps lists the steps it has attempted,
\* http is how its request of the weather API ended, reading and record are
\* weatherResponse and weatherRecord, resp is the Response it returned,
\* among the invocations that were running when its fetch returned.
IdleInvocation ==
    [pc |-> "Idle", steps |-> <<>>, http |-> NoHTTP, reading |-> NoReading,
     record |-> NoRecord, resp |-> NoResponse, among |-> {}]

\* The collector is up and no invocation is running.
CollectorServing ==
    /\ config = FullConfig
    /\ process = "serving"
    /\ inv = [i \in Invocations |-> IdleInvocation]

\* 2024-01-31T23:00:00Z: the windows of the history API reach back into
\* January, the clock advances into February.
ClockBase == (30 * 86400 + 23 * 3600) * Second

\* By how much the clock may advance in one step: a tick, or a tick less
\* than an hour (to the last tick of the day; the tick after it is in the
\* next day, which is in the next month).
ClockSteps == {1, Hour - 1}

\* The collector process starts, with some configuration and empty stores.
Init ==
    /\ clock = ClockBase
    /\ ticks = 0
    /\ table = {}
    /\ blobs = {}
    /\ config \in Configs
    /\ process = "starting"
    /\ inv = [i \in Invocations |-> IdleInvocation]
    /\ request = NoRequest
    /\ response = NoResponse
    /\ dynamoCalls = <<>>
    /\ scanned = <<>>
    /\ cityIn = <<>>
    /\ cityOut = NotRun

\* Time passes: by a tick at any moment, by the longer step only between
\* invocations (the schedule fires every hour; an invocation lasts no
\* longer than its calls, the longest of which is bounded by 30 seconds).
Tick ==
    /\ ticks < MaxTicks
    /\ \E d \in ClockSteps :
          /\ d > 1 => \A i \in Invocations : inv[i].pc \notin {"WritingTable", "WritingBlob"}
          /\ clock' = clock + d
    /\ ticks' = ticks + 1
    /\ UNCHANGED <<table, blobs, collector, request, response, dynamoCalls,
                   scanned, cityIn, cityOut>>

----------------------------------------------------------------------------
(* cmd/weather-lambda: main and NewHandler *)

\* NewHandler without the check of the bucket name.
RequiredConfigMissing_NoBucket(cfg) == cfg.apiKey = "" \/ cfg.tableName = ""

\* "Validate required configuration" of NewHandler.
RequiredConfigMissing(cfg) ==
    cfg.apiKey = "" \/ cfg.bucket = "" \/ cfg.tableName = ""

\* NewHandler: whether it returns an error.  setupOk tells whether loading
\* the configuration and creating the AWS session and the DynamoDB handler
\* succeed.
NewHandler(cfg, setupOk) == [err |-> RequiredConfigMissing(cfg) \/ ~setupOk]

\* main: log.Fatal when NewHandler fails, lambda.Start otherwise.
Start ==
    /\ process = "starting"
    /\ \E setupOk \in BOOLEAN :
          process' = IF NewHandler(config, setupOk).err THEN "exited" ELSE "serving"
    /\ UNCHANGED <<clock, ticks, table, blobs, config, inv, request, response,
                   dynamoCalls, scanned, cityIn, cityOut>>

----------------------------------------------------------------------------
(* cmd/weather-lambda: Handler.HandleRequest.  An invocation proceeds from *)
(* one call of a remote service to the next; invocations run in separate   *)
(* execution environments and interleave at these calls.                   *)

\* What the body of an error answer of the weather API decodes to: a
\* WeatherResponse with none of its fields set.
ErrorDocument ==
    [name |-> <<>>, temp |-> 0, humidity |-> 0, pressure |-> 0, weather |-> <<>>,
     windSpeed |-> 0, country |-> ""]

\* How w.client.Get may end for the configured city: a transport error; an
\* answer with a status other than 200, whose body is an error document;
\* an answer 200 with a body that json.Unmarshal rejects; an answer 200 with
\* one of the readings of the city.
HTTPResults ==
    {[err |-> TRUE, status |-> 0, body |-> [decodes |-> FALSE, reading |-> NoReading]],
     [err |-> FALSE, status |-> StatusUnauthorized,
      body |-> [decodes |-> TRUE, reading |-> ErrorDocument]],
     [err |-> FALSE, status |-> StatusOK,
      body |-> [decodes |-> FALSE, reading |-> NoReading]]}
    \cup {[err |-> FALSE, status |-> StatusOK, body |-> [decodes |-> TRUE, reading |-> r]] :
             r \in {x \in Readings : x.name = DefaultCity}}

\* A faulty GetWeatherData: the status of the answer is not looked at.
GetWeatherData_AnyStatus(http) ==
    IF http.err
    THEN [err |-> TRUE, cause |-> "failed to make weather API request",
          reading |-> NoReading]
    ELSE IF ~http.body.decodes
    THEN [err |-> TRUE, cause |-> "failed to parse weather API response",
          reading |-> NoReading]
    ELSE [err |-> FALSE, cause |-> "", reading |-> http.body.reading]

\* WeatherService.GetWeatherData: one GET; the error of the request, of a
\* status other than 200 or of json.Unmarshal, or the decoded reading.
GetWeatherData(http) ==
    IF http.err
    THEN [err |-> TRUE, cause |-> "failed to make weather API request",
          reading |-> NoReading]
    ELSE IF http.status # StatusOK
    THEN [err |-> TRUE, cause |-> "weather API returned status",
          reading |-> NoReading]
    ELSE IF ~http.body.decodes
    THEN [err |-> TRUE, cause |-> "failed to parse weather API response",
          reading |-> NoReading]
    ELSE [err |-> FALSE, cause |-> "", reading |-> http.body.reading]

\* The 500 response of the collector: fmt.Sprintf("<msg>: %v", err).
CollectFailure(msg, cause) ==
    [statusCode |-> StatusInternalServerError, message |-> msg, error |-> cause]

\* The 200 response of the collector.
CollectSuccess(record) ==
    [statusCode |-> StatusOK,
     message    |-> "Weather data processed successfully",
     data       |-> [city        |-> record.cityName,
                     temperature |-> record.temperature,
                     description |-> record.description,
                     timestamp   |-> record.timestamp,
                     recordId    |-> record.id]]

\* The handler up to the call of StoreWeatherRecord: the outcome of the
\* fetch, the log line that reads weatherResponse.Weather[0] (an index out
\* of range when the reading has no conditions: the invocation panics and
\* returns no Response), and the mapping at now, the value of time.Now().
AfterFetch(s, got, now) ==
    IF got.err
    THEN [s EXCEPT !.pc = "Failed", !.steps = <<"fetch">>,
                   !.resp = CollectFailure("Failed to fetch weather data", got.cause)]
    ELSE IF Len(got.reading.weather) = 0
    THEN [s EXCEPT !.pc = "Panicked", !.steps = <<"fetch">>, !.reading = got.reading]
    ELSE [s EXCEPT !.pc = "WritingTable", !.steps = <<"fetch", "map">>,
                   !.reading = got.reading,
                   !.record = ConvertToWeatherRecord(got.reading, now)]

\* A faulty handler: the error of StoreWeatherRecord is logged and ignored.
AfterTableWrite_IgnoreError(s, ok) ==
    [s EXCEPT !.pc = "WritingBlob", !.steps = Append(@, "table")]

\* The handler after StoreWeatherRecord returned.
AfterTableWrite(s, ok) ==
    IF ok
    THEN [s EXCEPT !.pc = "WritingBlob", !.steps = Append(@, "table")]
    ELSE [s EXCEPT !.pc = "Failed", !.steps = Append(@, "table"),
                   !.resp = CollectFailure("Failed to store to DynamoDB",
                                          "failed to put item to DynamoDB")]

\* A faulty handler: a failed upload is reported as a success.
AfterBlobWrite_FailureIsOK(s, ok) ==
    [s EXCEPT !.pc = IF ok THEN "Done" ELSE "Failed", !.steps = Append(@, "blob"),
              !.resp = CollectSuccess(s.record)]

\* The handler after StoreWeatherData returned.
AfterBlobWrite(s, ok) ==
    IF ok
    THEN [s EXCEPT !.pc = "Done", !.steps = Append(@, "blob"),
                   !.resp = CollectSuccess(s.record)]
    ELSE [s EXCEPT !.pc = "Failed", !.steps = Append(@, "blob"),
                   !.resp = CollectFailure("Failed to store to S3",
                                          "failed to upload to S3")]

\* The invocations other than i that are between two calls.
Running(i) ==
    {j \in Invocations \ {i} : inv[j].pc \in {"WritingTable", "WritingBlob"}}

\* Invocation i begins: GetWeatherData returns, and the handler runs up to
\* the call of StoreWeatherRecord.
Fetch(i) ==
    /\ process = "serving"
    /\ inv[i].pc = "Idle"
    /\ i > 1 => inv[i - 1].pc # "Idle"
    /\ \E http \in HTTPResults :
          inv' = [inv EXCEPT ![i] = [AfterFetch(inv[i], GetWeatherData(http), clock)
                                        EXCEPT !.among = Running(i), !.http = http]]
    /\ UNCHANGED <<clock, ticks, table, blobs, config, process, request, response,
                   dynamoCalls, scanned, cityIn, cityOut>>

\* StoreWeatherRecord of invocation i returns: the item has been put, or the
\* call failed.
WriteTable(i) ==
    /\ inv[i].pc = "WritingTable"
    /\ \E ok \in BOOLEAN :
          /\ table' = IF ok THEN PutItem(table, MarshalMap(inv[i].record)) ELSE table
          /\ inv' = [inv EXCEPT ![i] = AfterTableWrite(inv[i], ok)]
    /\ UNCHANGED <<clock, ticks, blobs, config, process, request, response,
                   dynamoCalls, scanned, cityIn, cityOut>>

\* StoreWeatherData of invocation i returns: the envelope has been uploaded
\* under the key of the time of the upload, or the call failed.
WriteBlob(i) ==
    /\ inv[i].pc = "WritingBlob"
    /\ \E ok \in BOOLEAN :
          /\ blobs' = IF ok
                      THEN PutObject(blobs, S3Key(inv[i].record.id, clock),
                                     ConvertToS3Data(inv[i].reading, inv[i].record))
                      ELSE blobs
          /\ inv' = [inv EXCEPT ![i] = AfterBlobWrite(inv[i], ok)]
    /\ UNCHANGED <<clock, ticks, table, config, process, request, response,
                   dynamoCalls, scanned, cityIn, cityOut>>

Collect == \E i \in Invocations : Fetch(i) \/ WriteTable(i) \/ WriteBlob(i)

\* The collector: the process starts, time passes, invocations proceed.
Next ==
    \/ Start
    \/ Tick
    \/ Collect

Spec == Init /\ [][Next]_vars

----------------------------------------------------------------------------
(* What the history API finds in the table *)

\* The item the collector writes for a reading at time t.
Collected(reading, t) == MarshalMap(ConvertToWeatherRecord(reading, t))

\* The reading of a city, with its conditions.
Reading(name) ==
    CHOOSE r \in Readings : r.name = name /\ r.weather \in {<<"Clear sky">>, <<"Rain", "Mist">>}

\* An item that another writer left in the table (schema drift): its
\* temperature is a string, so GetWeatherHistory cannot unmarshal it.
Foreign(reading, t) ==
    [Collected(reading, t) EXCEPT !.id = <<"x", "-">> \o @,
                                  !.temperature = [S |-> "n/a"]]

----------------------------------------------------------------------------
(* cmd/weather-history-api: one invocation *)

\* What a Scan that fails may have read before it failed: nothing, or one
\* page of the items in any order.
FailedReads(tbl) ==
    {<< <<>> >>} \cup {<<o>> : o \in Orderings(tbl)}

\* The handler serves req: one Scan of the table, in some order and paging,
\* which may fail after the pages it read.
HistoryInvoke(req) ==
    /\ response = NoResponse
    /\ \E scanErr \in BOOLEAN :
       \E reads \in IF scanErr THEN FailedReads(table) ELSE ScanReads(table) :
       \E out \in {HandleRequest(req, clock, reads, scanErr)} :
          /\ response' = out.resp
          /\ dynamoCalls' = out.calls
          /\ scanned' = IF out.calls = <<>> THEN <<>> ELSE reads
    /\ request' = req
    /\ UNCHANGED <<clock, ticks, table, blobs, collector, cityIn, cityOut>>

WithKey == [h \in HeaderNames |-> IF h = "X-API-Key" THEN "k" ELSE ""]

\* Requests that pass the checks of the handler: GET with an API key, the
\* default window, two hours or a day, the default city or Osaka.
SystemRequests ==
    {[method |-> "GET", headers |-> WithKey, period |-> p, city |-> c] :
        p \in {<<>>, <<"2">>, <<"2", "4", "h">>}, c \in {<<>>, Osaka}}

----------------------------------------------------------------------------
(* The history handler on one request, drawn from a bounded set *)

\* A table after one collection an hour before ClockBase.
SeedTable == {Collected(Reading(Tokyo), ClockBase - Hour)}

\* The characters period strings are built from.
PeriodAlphabet == DigitChars \cup {"h", "d", "-", "+", "a", " "}

PeriodInputs ==
    StringsUpTo(PeriodAlphabet, MaxPeriodLen)
    \cup {<<"0", "1", "6", "8">>, <<"1", "6", "8", "0">>, <<"6", "h", "\n">>}

\* GET with an API key and every period string.
PeriodRequests ==
    {[method |-> "GET", headers |-> WithKey, period |-> p, city |-> <<>>] :
        p \in PeriodInputs}

\* Every method and API-key header combination, with valid and invalid
\* periods and cities (one of them of digits alone).
GateRequests ==
    {[method |-> m, headers |-> h, period |-> p, city |-> c] :
        m \in {"GET", "OPTIONS", "POST", "PUT", "get"},
        h \in [HeaderNames -> {"", "k"}],
        p \in {<<>>, <<"2", "4", "h">>, <<"9">>, <<"a", "b", "c">>, <<"1", "6", "9">>},
        c \in {<<>>, Osaka, <<"T", "o", "k", "y", "o", "1", "2", "3", "!">>,
               <<"1", "2", "3">>}}

InitRequest ==
    /\ clock = ClockBase
    /\ ticks = 0
    /\ table = SeedTable
    /\ blobs = {}
    /\ CollectorServing
    /\ request \in PeriodRequests \cup GateRequests
    /\ response = NoResponse
    /\ dynamoCalls = <<>>
    /\ scanned = <<>>
    /\ cityIn = <<>>
    /\ cityOut = NotRun

\* The handler serves the request that is waiting.
HistoryPending == request # NoRequest /\ HistoryInvoke(request)

NextRequest == HistoryPending

SpecRequest == InitRequest /\ [][NextRequest]_vars

----------------------------------------------------------------------------
(* The history handler on one table, drawn from a bounded set *)

\* The time of the query, on a whole second and between two seconds.
QueryClocks == {ClockBase + 10 * Hour, ClockBase + 10 * Hour + 1}

\* What the table may hold at that time: Tokyo collected 10 h before, one
\* second more than 6 h before, 6 h, 3 h and 1 h before and at the time of
\* the query, Osaka collected 3 h before, and a foreign item of 1 h before.
HistoryItems ==
    {Collected(Reading(Tokyo), ClockBase + h * Hour) : h \in {0, 4, 7, 9, 10}}
    \cup {Collected(Reading(Tokyo), ClockBase + 4 * Hour - Second),
          Collected(Reading(Osaka), ClockBase + 7 * Hour),
          Foreign(Reading(Tokyo), ClockBase + 9 * Hour)}

HistoryTables == {t \in SUBSET HistoryItems : Cardinality(t) <= MaxItems}

InitHistory ==
    /\ clock \in QueryClocks
    /\ ticks = 0
    /\ table \in HistoryTables
    /\ blobs = {}
    /\ CollectorServing
    /\ request \in SystemRequests
    /\ response = NoResponse
    /\ dynamoCalls = <<>>
    /\ scanned = <<>>
    /\ cityIn = <<>>
    /\ cityOut = NotRun

NextHistory == HistoryPending

SpecHistory == InitHistory /\ [][NextHistory]_vars

----------------------------------------------------------------------------
(* sanitizeCityName on one input, drawn from a bounded set *)

\* The characters city strings are built from: letters, a digit, a
\* punctuation mark, a space, a tab and the hyphen.
CityAlphabet == {"a", "Z", "1", "!", " ", "\t", "-"}

Tokyo123 == <<"T", "o", "k", "y", "o", "1", "2", "3", "!">>

\* Strings around the length limit: a run of letters, possibly with one
\* more character at either end.
LongCities ==
    {pre \o Repeat("a", n) \o suf :
        pre \in StringsUpTo(CityAlphabet, 1), suf \in StringsUpTo(CityAlphabet, 1),
        n \in {MaxCityBytes - 2, MaxCityBytes - 1, MaxCityBytes, MaxCityBytes + 1,
               MaxCityBytes + 10}}

\* Strings whose byte at the length limit is whitespace, with letters after it.
CutCities ==
    {Repeat("a", MaxCityBytes - 1) \o <<sp>> \o Repeat("a", 2) : sp \in {" ", "\t"}}

CityInputs ==
    StringsUpTo(CityAlphabet, MaxCityLen) \cup LongCities \cup CutCities \cup {Tokyo123}

InitCity ==
    /\ clock = ClockBase
    /\ ticks = 0
    /\ table = {}
    /\ blobs = {}
    /\ CollectorServing
    /\ request = NoRequest
    /\ response = NoResponse
    /\ dynamoCalls = <<>>
    /\ scanned = <<>>
    /\ cityIn \in CityInputs
    /\ cityOut = NotRun

Sanitize ==
    /\ cityOut = NotRun
    /\ cityOut' = sanitizeCityName(cityIn)
    /\ UNCHANGED <<clock, ticks, table, blobs, collector, request, response,
                   dynamoCalls, scanned, cityIn>>

NextCity == Sanitize

SpecCity == InitCity /\ [][NextCity]_vars

----------------------------------------------------------------------------
(* The table accessor: records put and read back by key *)

\* The instants of the records: two in one second, one in the next.
TableClocks == {ClockBase, ClockBase + 1, ClockBase + TicksPerSecond}

\* The records put: each reading of the default city with a condition,
\* mapped at each instant.
TableRecords ==
    {ConvertToWeatherRecord(r, t) :
        r \in {x \in Readings : x.name = DefaultCity /\ x.weather # <<>>},
        t \in TableClocks}

\* The keys read: every identifier with every timestamp, so some keys are
\* of no record.
TableKeys == {<<a.id, b.timestamp>> : a, b \in TableRecords}

InitTable ==
    /\ clock = ClockBase
    /\ ticks = 0
    /\ table = {}
    /\ blobs = {}
    /\ CollectorServing
    /\ request = NoRequest
    /\ response = NoResponse
    /\ dynamoCalls = <<>>
    /\ scanned = <<>>
    /\ cityIn = <<>>
    /\ cityOut = NotRun

\* StoreWeatherRecord is called with one of the records.
Put ==
    /\ Len(dynamoCalls) < MaxCalls
    /\ \E r \in TableRecords, ok \in BOOLEAN :
          \E out \in {StoreWeatherRecord(table, r, ok)} :
             /\ table' = out.table
             /\ dynamoCalls' = Append(dynamoCalls,
                                      [op |-> "put", record |-> r, err |-> out.err])
    /\ UNCHANGED <<clock, ticks, blobs, collector, request, response, scanned,
                   cityIn, cityOut>>

\* GetWeatherRecord is called with one of the keys.
Get ==
    /\ Len(dynamoCalls) < MaxCalls
    /\ \E key \in TableKeys, ok \in BOOLEAN :
          dynamoCalls' = Append(dynamoCalls,
                                [op |-> "get", key |-> key,
                                 out |-> GetWeatherRecord(table, key[1], key[2], ok)])
    /\ UNCHANGED <<clock, ticks, table, blobs, collector, request, response,
                   scanned, cityIn, cityOut>>

NextTable == Put \/ Get

SpecTable == InitTable /\ [][NextTable]_vars

----------------------------------------------------------------------------
(* Claims about request validation, under SpecRequest *)

\* The handler has answered the request.
Answered == request # NoRequest /\ response # NoResponse

\* The request carries a non-empty API key under the header name X-API-Key.
CarriesKey == request.headers["X-API-Key"] # ""

\* The request carries a non-empty API key under some spelling of the name.
CarriesKeyAnyCase == \E h \in HeaderNames : request.headers[h] # ""

\* The period tokens the specification calls valid, and their hours.
NumberTokens == {Itoa(n) : n \in 1..MaxHours}

ValidTokens == {<<"6", "h">>, <<"2", "4", "h">>, <<"1", "d">>} \cup NumberTokens

TokenHours(p) ==
    IF p \in {<<>>, <<"6", "h">>} THEN 6
    ELSE IF p \in {<<"2", "4", "h">>, <<"1", "d">>} THEN 24
    ELSE CHOOSE n \in 1..MaxHours : Itoa(n) = p

\* The handler made exactly one query of the table, for the window of the
\* given number of hours ending now.
QueriedWindow(hours) ==
    /\ Len(dynamoCalls) = 1
    /\ dynamoCalls[1].endTime = clock
    /\ dynamoCalls[1].startTime = clock - hours * 3600 * TicksPerSecond

\* C1: a GET with an API key whose period is absent or a valid token (6h,
\* 24h, 1d, or an integer 1..168) is not answered 400, and the table is
\* queried for [now - duration, now].
C1_ValidPeriodIsQueried ==
    (Answered /\ request.method = "GET" /\ CarriesKey
        /\ request.period \in ValidTokens \cup {<<>>})
    => (response.statusCode # 400 /\ QueriedWindow(TokenHours(request.period)))

\* C2: a GET with an API key whose period is present and not a valid token
\* is answered 400 "Invalid period parameter", and the table is not queried.
C2_InvalidPeriodIs400 ==
    (Answered /\ request.method = "GET" /\ CarriesKey
        /\ request.period \notin ValidTokens \cup {<<>>})
    => (/\ response.statusCode = 400
        /\ response.body = [error |-> "Invalid period parameter"]
        /\ dynamoCalls = <<>>)

C2_Witness ==
    /\ Answered /\ request.method = "GET" /\ CarriesKey
    /\ request.period = <<"1", "6", "9">>
    /\ response.statusCode = 400

\* C3 as stated: each of the tokens 0, 169, abc, 6 and -5 is answered 400.
C3_ListedTokensAre400 ==
    (Answered /\ request.method = "GET" /\ CarriesKey
        /\ request.period \in {<<"0">>, <<"1", "6", "9">>, <<"a", "b", "c">>,
                               <<"6">>, <<"-", "5">>})
    => response.statusCode = 400

\* C3 amended: the tokens 0, 169, abc and -5 are answered 400; the token 6
\* is a valid period of six hours and is not answered 400.
C3_InvalidTokensAre400 ==
    (Answered /\ request.method = "GET" /\ CarriesKey)
    => /\ request.period \in {<<"0">>, <<"1", "6", "9">>, <<"a", "b", "c">>, <<"-", "5">>}
          => response.statusCode = 400
       /\ request.period = <<"6">>
          => (response.statusCode # 400 /\ QueriedWindow(6))

C3_Witness ==
    /\ Answered /\ request.method = "GET" /\ CarriesKey
    /\ request.period = <<"-", "5">>
    /\ response.statusCode = 400

\* C4: a GET without any API-key header is answered 401 whatever its period
\* and city, and the table is not queried.
C4_NoKeyIs401 ==
    (Answered /\ request.method = "GET" /\ ~CarriesKeyAnyCase)
    => (response.statusCode = 401 /\ dynamoCalls = <<>>)

C4_Witness ==
    /\ Answered /\ request.method = "GET" /\ ~CarriesKeyAnyCase
    /\ request.period = <<"a", "b", "c">>
    /\ request.city # <<>>
    /\ response.statusCode = 401

\* C5: a GET that carries a non-empty API key under any letter casing of
\* the header name is not answered 401.
C5_KeyNameIsCaseInsensitive ==
    (Answered /\ request.method = "GET" /\ CarriesKeyAnyCase)
    => response.statusCode # 401

\* C6: OPTIONS is answered 200 with an empty body and the CORS headers,
\* whatever the API key, period and city, and the table is not queried.
C6_OptionsIs200 ==
    (Answered /\ request.method = "OPTIONS")
    => (/\ response.statusCode = 200
        /\ response.body = EmptyBody
        /\ response.headers["Access-Control-Allow-Origin"] = "*"
        /\ response.headers["Access-Control-Allow-Methods"] = "GET,OPTIONS"
        /\ response.headers["Content-Type"] = "application/json"
        /\ dynamoCalls = <<>>)

C6_Witness ==
    /\ Answered /\ request.method = "OPTIONS" /\ ~CarriesKeyAnyCase
    /\ request.period = <<"1", "6", "9">>
    /\ response.statusCode = 200

\* C7: a method other than GET and OPTIONS is answered 405, whatever the
\* API key and the query parameters, and the table is not queried.
C7_OtherMethodIs405 ==
    (Answered /\ request.method \notin {"GET", "OPTIONS"})
    => (response.statusCode = 405 /\ dynamoCalls = <<>>)

C7_Witness ==
    /\ Answered /\ request.method = "POST" /\ CarriesKey
    /\ request.period = <<>>
    /\ response.statusCode = 405

----------------------------------------------------------------------------
(* Claims about sanitizeCityName, under SpecCity *)

Sanitized == cityOut # NotRun

\* C8 as stated: the sanitized city holds only letters, the space character
\* and the hyphen, and at most 50 characters; Tokyo123! becomes Tokyo and a
\* string of 60 letters becomes its first 50.
C8_OnlyLettersSpaceHyphen ==
    Sanitized
    => /\ \A i \in 1..Len(cityOut) : cityOut[i] \in Letters \cup {" ", "-"}
       /\ Len(cityOut) <= 50
       /\ cityIn = Tokyo123 => cityOut = Tokyo
       /\ cityIn = Repeat("a", 60) => cityOut = Repeat("a", 50)

\* C8 amended: the sanitized city holds only letters, whitespace (space,
\* tab, newline, form feed, carriage return) and the hyphen, and at most 50
\* characters; Tokyo123! becomes Tokyo and a string of 60 letters becomes
\* its first 50.
C8_OnlyLettersWhitespaceHyphen ==
    Sanitized
    => /\ \A i \in 1..Len(cityOut) :
             cityOut[i] \in Letters \cup {" ", "\t", "\n", "\f", "\r", "-"}
       /\ Len(cityOut) <= 50
       /\ cityIn = Tokyo123 => cityOut = Tokyo
       /\ cityIn = Repeat("a", 60) => cityOut = Repeat("a", 50)

C8_Witness ==
    /\ Sanitized
    /\ cityIn = Repeat("a", 60)
    /\ Len(cityOut) = 50

----------------------------------------------------------------------------
(* Claims about the history query, under SpecHistory *)

\* The handler answered 200 after one query of the table.
Queried == Answered /\ response.statusCode = 200 /\ Len(dynamoCalls) = 1

\* The whole second an instant lies in.
SecondOf(t) == t \div TicksPerSecond

\* The stored records that a query for (city, start, end) is to return: the
\* well-formed items of that city whose timestamp, which has the resolution
\* of a second, lies between start and end, both inclusive.
Expected(call) ==
    {item \in table :
        /\ DOMAIN item.temperature = {"N"}
        /\ item.cityName = call.city
        /\ SecondOf(call.startTime) <= SecondOf(item.createdAt)
        /\ SecondOf(item.createdAt) <= SecondOf(call.endTime)}

Range(seq) == {seq[i] : i \in 1..Len(seq)}

TokyoAt(t) == ConvertToWeatherRecord(Reading(Tokyo), t)

\* The table of the scenario: Tokyo collected 10 h, 3 h and 1 h before now.
ScenarioTable ==
    {Collected(Reading(Tokyo), clock - h * Hour) : h \in {10, 3, 1}}

\* C9: a history query returns exactly the well-formed stored records of
\* the requested city whose timestamp lies in [start, end], both ends
\* inclusive, each once; with Tokyo records of 10 h, 3 h and 1 h ago, a
\* query for the last 6 h returns the records of 3 h and 1 h ago, in that
\* order, with count 2.
C9_ExactlyTheWindow ==
    Queried
    => /\ Len(response.body.data) = Cardinality(Expected(dynamoCalls[1]))
       /\ {MarshalMap(r) : r \in Range(response.body.data)} = Expected(dynamoCalls[1])
       /\ (table = ScenarioTable /\ request.period = <<>> /\ request.city = <<>>)
          => /\ response.body.data = <<TokyoAt(clock - 3 * Hour), TokyoAt(clock - Hour)>>
             /\ response.body.count = 2

C9_Witness ==
    /\ Queried
    /\ table = ScenarioTable /\ request.period = <<>> /\ request.city = <<>>
    /\ response.body.count = 2

\* The items the Scan read, in the order it read them.
RECURSIVE Flatten(_)
Flatten(pages) == IF pages = <<>> THEN <<>> ELSE Head(pages) \o Flatten(Tail(pages))

\* C10: the records a history query returns are in ascending order of
\* timestamp, in whatever order and paging the store returned its items.
C10_SortedAscending ==
    Queried
    => \A i, j \in 1..Len(response.body.data) :
          i < j => SecondOf(response.body.data[i].createdAt)
                      <= SecondOf(response.body.data[j].createdAt)

\* The store returned three matching items in two pages, newest first.
C10_Witness ==
    /\ Queried
    /\ Len(scanned) = 2
    /\ Len(response.body.data) = 3
    /\ LET read == Flatten(scanned)
       IN  /\ Len(read) = 3
           /\ read[1].createdAt > read[2].createdAt
           /\ read[2].createdAt > read[3].createdAt

\* The handler queried the table once and the store returned no error.
ScanSucceeded == Answered /\ Len(dynamoCalls) = 1 /\ ~dynamoCalls[1].err

\* The handler queried the table once and the store returned an error.
ScanFailed == Answered /\ Len(dynamoCalls) = 1 /\ dynamoCalls[1].err

\* An item that does not deserialize into a record: one of its numeric
\* attributes is not a number.
Malformed(item) ==
    \E f \in {"temperature", "humidity", "pressure", "windSpeed", "ttl"} :
        DOMAIN item[f] # {"N"}

\* The malformed items of the table that match the city and the window of a
\* query.
MalformedMatches(call) ==
    {item \in table :
        /\ Malformed(item)
        /\ item.cityName = call.city
        /\ SecondOf(call.startTime) <= SecondOf(item.createdAt)
        /\ SecondOf(item.createdAt) <= SecondOf(call.endTime)}

\* C11: when the scan of a history query meets items that do not
\* deserialize, the query still succeeds with status 200 and returns the
\* valid matching items and none of the malformed ones; with one malformed
\* and two valid matching items it returns exactly the two valid items.
C11_MalformedItemIsSkipped ==
    (ScanSucceeded /\ MalformedMatches(dynamoCalls[1]) # {})
    => /\ response.statusCode = 200
       /\ Len(response.body.data) = Cardinality(Expected(dynamoCalls[1]))
       /\ {r.id : r \in Range(response.body.data)}
             = {item.id : item \in Expected(dynamoCalls[1])}
       /\ (Cardinality(MalformedMatches(dynamoCalls[1])) = 1
             /\ Cardinality(Expected(dynamoCalls[1])) = 2)
          => response.body.count = 2

\* The scan read one malformed and two valid matching items, the malformed
\* one first.
C11_Witness ==
    /\ ScanSucceeded
    /\ Cardinality(table) = 3
    /\ Cardinality(MalformedMatches(dynamoCalls[1])) = 1
    /\ Cardinality(Expected(dynamoCalls[1])) = 2
    /\ Malformed(Flatten(scanned)[1])
    /\ response.statusCode = 200
    /\ response.body.count = 2

\* Reading an RFC3339 timestamp of 2024 back: the number at positions i and
\* i + 1, the days of the year before a month, and the seconds since the
\* start of the year.
TwoDigits(ts, i) == DigitVal(ts[i]) * 10 + DigitVal(ts[i + 1])

RECURSIVE DaysBefore(_)
DaysBefore(m) == IF m = 1 THEN 0 ELSE DaysBefore(m - 1) + MonthDays[m - 1]

SecondsOfYear(ts) ==
    ((DaysBefore(TwoDigits(ts, 6)) + TwoDigits(ts, 9) - 1) * 24 + TwoDigits(ts, 12)) * 3600
    + TwoDigits(ts, 15) * 60 + TwoDigits(ts, 18)

\* C12: in every 200 response to a GET, count is the number of elements of
\* data, period is the requested period token (6h when absent), and endTime
\* minus startTime is exactly the duration of that period.
C12_BodyMatchesQuery ==
    (Answered /\ request.method = "GET" /\ response.statusCode = 200)
    => /\ response.body.count = Len(response.body.data)
       /\ response.body.period
             = (IF request.period = <<>> THEN <<"6", "h">> ELSE request.period)
       /\ Len(response.body.startTime) = 20 /\ Len(response.body.endTime) = 20
       /\ SecondsOfYear(response.body.endTime) - SecondsOfYear(response.body.startTime)
             = TokenHours(request.period) * 3600

\* A day's window that starts in January and ends in February, with data.
C12_Witness ==
    /\ Answered /\ request.method = "GET" /\ response.statusCode = 200
    /\ request.period = <<"2", "4", "h">>
    /\ TwoDigits(response.body.startTime, 6) = 1
    /\ TwoDigits(response.body.endTime, 6) = 2
    /\ response.body.count = 2

\* C13: when the table store returns an error to a validated GET, the
\* handler answers 500 with the error body "Failed to retrieve weather
\* history" and the usual headers, and returns none of the records the scan
\* had read before it failed.
C13_StoreErrorIs500 ==
    ScanFailed
    => /\ response.statusCode = 500
       /\ response.body = [error |-> "Failed to retrieve weather history"]
       /\ response.headers = CORSHeaders

\* The scan failed after it had read a page with matching records.
C13_Witness ==
    /\ ScanFailed
    /\ request.method = "GET"
    /\ Expected(dynamoCalls[1]) # {}
    /\ Len(Flatten(scanned)) = Cardinality(table)
    /\ response.statusCode = 500

----------------------------------------------------------------------------
(* Claims about the collector, under Spec *)

\* The steps of an invocation, in the order of the handler.
StepOrder == <<"fetch", "map", "table", "blob">>

\* Invocation i ended in Failed at the given step.
FailedAt(i, step) ==
    /\ inv[i].pc = "Failed"
    /\ inv[i].steps # <<>>
    /\ inv[i].steps[Len(inv[i].steps)] = step

\* The table holds an item under the key of the record of invocation i.
KeyStored(i) == \E item \in table : ItemKey(item) = ItemKey(inv[i].record)

\* The envelopes the bucket holds for an identifier.
EnvelopesOf(id) == {o \in blobs : o.data.record.id = id}

\* C14: an invocation attempts fetch, map, table write and blob write in
\* that order; it attempts the table write only with a fetched reading and
\* the blob write only with its record's key in the table; and an
\* invocation ends in Failed exactly at the step that failed, with that
\* step's 500 response and no later step attempted.
C14_StepsInOrder ==
    \A i \in Invocations :
       LET s == inv[i]
           n == Len(s.steps)
       IN  /\ n <= 4 /\ s.steps = SubSeq(StepOrder, 1, n)
           /\ n >= 3 => (s.reading \in Readings /\ s.record # NoRecord)
           /\ n = 4 => KeyStored(i)
           /\ s.pc = "Done" => n = 4
           /\ s.pc = "Failed"
              => /\ n \in {1, 3, 4}
                 /\ s.resp.statusCode = 500
                 /\ s.resp.message
                       = (IF n = 1 THEN "Failed to fetch weather data"
                          ELSE IF n = 3 THEN "Failed to store to DynamoDB"
                          ELSE "Failed to store to S3")
                 /\ n = 1 => s.record = NoRecord
                 /\ (n = 3 /\ \A j \in Invocations \ {i} : inv[j].pc = "Idle")
                    => (table = {} /\ blobs = {})

\* The table write of the first invocation failed and nothing was written.
C14_Witness ==
    /\ FailedAt(1, "table")
    /\ inv[1].steps = <<"fetch", "map", "table">>
    /\ inv[2].pc = "Idle"
    /\ table = {} /\ blobs = {}

\* Another invocation derived the identifier of invocation i: it mapped a
\* reading of the same city within the same second.
SharesIdentifier(i) ==
    \E j \in Invocations \ {i} : inv[j].record.id = inv[i].record.id

\* C15 as stated: after an invocation whose table write succeeded and whose
\* blob write failed, its record is in the table, the bucket holds no
\* envelope for its identifier, and its response has status 500.
C15_RecordStaysNoEnvelope ==
    \A i \in Invocations :
       FailedAt(i, "blob")
       => /\ MarshalMap(inv[i].record) \in table
          /\ EnvelopesOf(inv[i].record.id) = {}
          /\ inv[i].resp.statusCode = 500

\* C15 amended: after an invocation whose table write succeeded and whose
\* blob write failed, its response has status 500 and the table still holds
\* an item under its record's key; unless another invocation derived the
\* same identifier, that item is its record and the bucket holds no
\* envelope for the identifier.
C15_NoRollback ==
    \A i \in Invocations :
       FailedAt(i, "blob")
       => /\ inv[i].resp.statusCode = 500
          /\ KeyStored(i)
          /\ ~SharesIdentifier(i)
             => /\ MarshalMap(inv[i].record) \in table
                /\ EnvelopesOf(inv[i].record.id) = {}

\* The first invocation wrote both stores; the second, a second later,
\* wrote its record and failed to upload.
C15_Witness ==
    /\ inv[1].pc = "Done"
    /\ FailedAt(2, "blob")
    /\ ~SharesIdentifier(2)
    /\ Cardinality(table) = 2
    /\ Cardinality(blobs) = 1
    /\ MarshalMap(inv[2].record) \in table

\* Invocation i has ended: it returned, or it panicked.
Ended(i) == inv[i].pc \in {"Done", "Failed", "Panicked"}

\* The data of a 200 response is that of the record of the invocation, and
\* the table holds an item under that record's key (the record itself unless
\* another invocation derived the same identifier).
CarriesItsRecord(i) ==
    /\ inv[i].resp.data
          = [city        |-> inv[i].record.cityName,
             temperature |-> inv[i].record.temperature,
             description |-> inv[i].record.description,
             timestamp   |-> inv[i].record.timestamp,
             recordId    |-> inv[i].record.id]
    /\ KeyStored(i)
    /\ ~SharesIdentifier(i) => MarshalMap(inv[i].record) \in table

\* C16: an invocation that has ended has status 200 if fetch, table write
\* and blob write all succeeded and status 500 otherwise, and a 200 response
\* carries the city, temperature, description, timestamp and identifier of
\* the record the invocation wrote to the table.
C16_StatusReflectsOutcome ==
    \A i \in Invocations :
       Ended(i)
       => /\ inv[i].resp.statusCode = (IF inv[i].pc = "Done" THEN 200 ELSE 500)
          /\ inv[i].resp.statusCode = 200 => CarriesItsRecord(i)

\* What holds of the invocations that return a response: the same, for the
\* invocations that did not panic.
C16_ReturnedStatusReflectsOutcome ==
    \A i \in Invocations :
       inv[i].pc \in {"Done", "Failed"}
       => /\ inv[i].resp.statusCode = (IF inv[i].pc = "Done" THEN 200 ELSE 500)
          /\ inv[i].resp.statusCode = 200 => CarriesItsRecord(i)

\* C17: no invocation ends without a response; an invocation that fetched a
\* reading without conditions goes on to the table write with a record whose
\* description is empty.
C17_EmptyConditionsAreHandled ==
    \A i \in Invocations :
       /\ inv[i].pc \in {"Idle", "WritingTable", "WritingBlob", "Done", "Failed"}
       /\ Ended(i) => inv[i].resp.statusCode \in {200, 500}
       /\ (inv[i].reading \in Readings /\ inv[i].reading.weather = <<>>)
          => (inv[i].record # NoRecord /\ inv[i].record.description = "")

\* unixSeconds of an instant: 1704067200 is 2024-01-01T00:00:00Z.
UnixSeconds(t) == 1704067200 + SecondOf(t)

\* The record r is the mapping of the reading rd at the instant now.
MappedFrom(r, rd, now) ==
    LET n == Len(rd.name)
    IN  /\ Len(r.id) > n + 1
        /\ SubSeq(r.id, 1, n + 1) = rd.name \o <<"-">>
        /\ \A k \in (n + 2)..Len(r.id) : r.id[k] \in DigitChars
        /\ r.id[n + 2] # "0"
        /\ DigitsVal(SubSeq(r.id, n + 2, Len(r.id))) = UnixSeconds(now)
        /\ r.createdAt = now
        /\ Len(r.timestamp) = 20
        /\ SubSeq(r.timestamp, 1, 4) = <<"2", "0", "2", "4">>
        /\ r.timestamp[20] = "Z"
        /\ 1704067200 + SecondsOfYear(r.timestamp) = UnixSeconds(now)
        /\ r.ttl = UnixSeconds(now) + 2592000
        /\ r.cityName = rd.name
        /\ r.temperature = rd.temp
        /\ r.humidity = rd.humidity
        /\ r.pressure = rd.pressure
        /\ r.windSpeed = rd.windSpeed
        /\ r.country = rd.country
        /\ r.description = rd.weather[1]

\* C18: the record an invocation maps from its reading at the instant now
\* has the identifier <city>-<unixSeconds(now)>, the timestamp of now,
\* the expiry unixSeconds(now) + 2592000, and the city, temperature,
\* humidity, pressure, wind speed, country and first condition of the
\* reading; the three derived fields come from the one clock reading.
C18_MappedAtNow ==
    [][\A i \in Invocations :
          (inv[i].record = NoRecord /\ inv'[i].record # NoRecord)
          => MappedFrom(inv'[i].record, inv'[i].reading, clock)]_vars

\* The reading of the example (Tokyo, 25.5, Clear sky), mapped between two
\* whole seconds, in the last second of the day.
C18_Witness ==
    /\ inv[1].record # NoRecord
    /\ inv[1].reading.temp = 255 /\ inv[1].record.description = "Clear sky"
    /\ inv[1].record.createdAt = ClockBase + Hour - 1
    /\ inv[1].record.id = Tokyo \o <<"-">> \o <<"1", "7", "0", "6", "7", "4", "5", "5", "9", "9">>
    /\ inv[1].record.timestamp
          = <<"2", "0", "2", "4", "-", "0", "1", "-", "3", "1", "T",
              "2", "3", ":", "5", "9", ":", "5", "9", "Z">>
    /\ inv[1].record.ttl = 1709337599

\* Invocations i and j ran concurrently: one was running when the fetch of
\* the other returned.
Concurrent(i, j) == i \in inv[j].among \/ j \in inv[i].among

\* Invocations i and j, for the same city, both succeeded.
BothSucceeded(i, j) ==
    /\ i # j
    /\ inv[i].pc = "Done" /\ inv[j].pc = "Done"
    /\ inv[i].record.cityName = inv[j].record.cityName

\* The invocations whose table write succeeded.
Wrote == {i \in Invocations : inv[i].pc = "WritingBlob" \/ Len(inv[i].steps) = 4}

\* C19 as stated: when two concurrent invocations for the same city both
\* succeed, the table holds the records of both, under different
\* identifiers, whatever the interleaving and the timing.
C19_TwoRecordsAlways ==
    \A i, j \in Invocations :
       (BothSucceeded(i, j) /\ Concurrent(i, j))
       => /\ inv[i].record.id # inv[j].record.id
          /\ MarshalMap(inv[i].record) \in table
          /\ MarshalMap(inv[j].record) \in table

\* C19 amended: when two invocations for the same city both succeed and
\* they mapped their readings in different seconds, the table holds the
\* records of both, under different identifiers; when they mapped them in
\* the same second, identifier and timestamp are the same and the table
\* holds one item for the two, that of the later table write.
C19_TwoRecordsUnlessSameSecond ==
    /\ \A i, j \in Invocations :
          BothSucceeded(i, j)
          => IF SecondOf(inv[i].record.createdAt) # SecondOf(inv[j].record.createdAt)
             THEN /\ inv[i].record.id # inv[j].record.id
                  /\ ItemKey(inv[i].record) # ItemKey(inv[j].record)
             ELSE /\ inv[i].record.id = inv[j].record.id
                  /\ ItemKey(inv[i].record) = ItemKey(inv[j].record)
    /\ \A i \in Wrote :
          /\ \E j \in Wrote : ItemKey(inv[j].record) = ItemKey(inv[i].record)
                                 /\ MarshalMap(inv[j].record) \in table
          /\ ~SharesIdentifier(i) => MarshalMap(inv[i].record) \in table
    /\ Cardinality(table) = Cardinality({ItemKey(inv[i].record) : i \in Wrote})

\* Two concurrent invocations succeeded, a tick apart and in different
\* seconds.
C19_Witness ==
    /\ BothSucceeded(1, 2) /\ Concurrent(1, 2)
    /\ inv[2].record.createdAt = inv[1].record.createdAt + 1
    /\ inv[1].record.id # inv[2].record.id
    /\ Cardinality(table) = 2

\* C20: when the weather API key, the bucket name or the table name is
\* empty, the process never serves: no invocation begins, and nothing is
\* written to the table or the bucket.
C20_MissingConfigNeverServes ==
    (config.apiKey = "" \/ config.bucket = "" \/ config.tableName = "")
    => /\ process \in {"starting", "exited"}
       /\ \A i \in Invocations : inv[i] = IdleInvocation
       /\ table = {} /\ blobs = {}

\* Only the bucket name is missing, and the process has exited.
C20_Witness ==
    /\ config.apiKey # "" /\ config.bucket = "" /\ config.tableName # ""
    /\ process = "exited"

\* The text of a blob key after the leading "weather-data/": taken apart at
\* the fixed widths of a four-digit year and a month-day of two digits, a
\* hyphen and two digits.
KeyRoot == <<"w", "e", "a", "t", "h", "e", "r", "-", "d", "a", "t", "a", "/">>

KeySuffix == <<".", "j", "s", "o", "n">>

\* The least length of a key: root, year, month-day, two slashes, suffix.
MinKeyLen == Len(KeyRoot) + 4 + 1 + 5 + 1 + Len(KeySuffix)

WellFormedKey(key) ==
    /\ Len(key) >= MinKeyLen
    /\ SubSeq(key, 1, 13) = KeyRoot
    /\ \A k \in {14, 15, 16, 17, 19, 20, 22, 23} : key[k] \in DigitChars
    /\ key[18] = "/" /\ key[21] = "-" /\ key[24] = "/"
    /\ SubSeq(key, Len(key) - 4, Len(key)) = KeySuffix

KeyYear(key) == SubSeq(key, 14, 17)

KeyMonth(key) == TwoDigits(key, 19)

KeyDay(key) == TwoDigits(key, 22)

KeyID(key) == SubSeq(key, 25, Len(key) - 5)

\* Invocation i returns successfully in this step.
Succeeds(i) == inv[i].pc # "Done" /\ inv'[i].pc = "Done"

\* C21: the step in which a collection succeeds writes exactly one object:
\* its key is weather-data/<year>/<month>-<day>/<id>.json, with a calendar
\* date and with <id> the identifier of the record the invocation wrote to
\* the table; the object embeds that record and the whole reading; every
\* other object of the bucket is left as it was; and no other step writes
\* to the bucket.
C21_OneObjectPerCollection ==
    [][/\ \A i \in Invocations :
             Succeeds(i)
             => \E o \in blobs' :
                   /\ WellFormedKey(o.key)
                   /\ KeyYear(o.key) = <<"2", "0", "2", "4">>
                   /\ KeyMonth(o.key) \in 1..12
                   /\ KeyDay(o.key) \in 1..MonthDays[KeyMonth(o.key)]
                   /\ KeyID(o.key) = inv[i].record.id
                   /\ "table" \in Range(inv[i].steps)
                   /\ o.data.record = inv[i].record
                   /\ o.data.rawResponse = inv[i].reading
                   /\ blobs' = {b \in blobs : b.key # o.key} \cup {o}
       /\ blobs' # blobs => \E j \in Invocations : Succeeds(j)]_vars

\* The collection of the example ran in the first second of 1 February and
\* succeeded: its object is the only one, under the key of that day and of
\* its identifier.
C21_Witness ==
    /\ inv[1].pc = "Done"
    /\ inv[1].reading.temp = 255
    /\ blobs = {[key  |-> KeyRoot \o <<"2", "0", "2", "4", "/", "0", "2", "-", "0", "1", "/">>
                          \o Tokyo \o <<"-", "1", "7", "0", "6", "7", "4", "5", "6", "0", "0">>
                          \o KeySuffix,
                 data |-> [record |-> inv[1].record, rawResponse |-> inv[1].reading]]}

----------------------------------------------------------------------------
(* Claims about the table accessor, under SpecTable *)

\* The calls before the k-th that put a record under the key and succeeded.
PutsBefore(k, key) ==
    {j \in 1..(k - 1) : /\ dynamoCalls[j].op = "put"
                        /\ dynamoCalls[j].err = ""
                        /\ <<dynamoCalls[j].record.id, dynamoCalls[j].record.timestamp>> = key}

\* The greatest element of a non-empty set of numbers.
Greatest(S) == CHOOSE x \in S : \A y \in S : y <= x

\* The keys under which a put has succeeded.
WrittenKeys == {key \in TableKeys : PutsBefore(Len(dynamoCalls) + 1, key) # {}}

\* C22: after puts and reads in any order, a put that succeeded leaves
\* exactly one item under its key, however often the record (or another
\* record of the same key) is put; a read of a key, when the call itself
\* succeeds, returns the record of the latest successful put of that key,
\* equal to it in every field; and a read of a key under which no put has
\* succeeded returns the error "weather record not found" and no record.
C22_PutGetRoundTrip ==
    /\ \A key \in TableKeys :
          Cardinality({i \in table : <<i.id, i.timestamp>> = key})
             = IF key \in WrittenKeys THEN 1 ELSE 0
    /\ \A k \in 1..Len(dynamoCalls) :
          (dynamoCalls[k].op = "get" /\ dynamoCalls[k].out.err # "failed to get item from DynamoDB")
          => LET puts == PutsBefore(k, dynamoCalls[k].key)
                 out  == dynamoCalls[k].out
             IN  IF puts = {}
                 THEN out.err = "weather record not found" /\ "record" \notin DOMAIN out
                 ELSE /\ out.err = ""
                      /\ out.record = dynamoCalls[Greatest(puts)].record
                      /\ out.record.id = dynamoCalls[k].key[1]
                      /\ out.record.temperature
                            = dynamoCalls[Greatest(puts)].record.temperature

\* The same record put twice, then read back; the table holds the one item.
C22_Witness ==
    /\ Len(dynamoCalls) = 3
    /\ dynamoCalls[1].op = "put" /\ dynamoCalls[1].err = ""
    /\ dynamoCalls[2] = dynamoCalls[1]
    /\ dynamoCalls[3].op = "get"
    /\ dynamoCalls[3].out.err = ""
    /\ dynamoCalls[3].out.record = dynamoCalls[1].record
    /\ dynamoCalls[3].out.record.temperature = 255
    /\ Cardinality(table) = 1

----------------------------------------------------------------------------
(* Further claims about the history handler, under SpecRequest *)

\* The statuses the handler answers with.
HandlerStatuses ==
    {StatusOK, StatusBadRequest, StatusUnauthorized, StatusMethodNotAllowed,
     StatusInternalServerError}

\* C23: every response of the history handler, whatever its status and
\* including the answer to OPTIONS, carries exactly four headers:
\* Access-Control-Allow-Origin "*", Access-Control-Allow-Methods
\* "GET,OPTIONS", Access-Control-Allow-Headers with the list of the
\* handler, and Content-Type "application/json".
C23_EveryResponseCarriesCORS ==
    Answered
    => /\ response.statusCode \in HandlerStatuses
       /\ DOMAIN response.headers
             = {"Access-Control-Allow-Origin", "Access-Control-Allow-Methods",
                "Access-Control-Allow-Headers", "Content-Type"}
       /\ response.headers["Access-Control-Allow-Origin"] = "*"
       /\ response.headers["Access-Control-Allow-Methods"] = "GET,OPTIONS"
       /\ response.headers["Access-Control-Allow-Headers"]
             = "Content-Type,X-Amz-Date,Authorization,X-Api-Key,X-Amz-Security-Token"
       /\ response.headers["Content-Type"] = "application/json"

\* The Scan failed: the 500 response carries the headers.
C23_Witness ==
    /\ Answered
    /\ request.method = "GET"
    /\ dynamoCalls # <<>> /\ dynamoCalls[1].err
    /\ response.statusCode = StatusInternalServerError
    /\ response.headers["Access-Control-Allow-Origin"] = "*"

----------------------------------------------------------------------------
(* Further claims about the history query, under SpecHistory *)

\* The places (page, index) at which the Scan read an item the query is to
\* return.
MatchingReads(call) ==
    {pk \in UNION {{<<p, k>> : k \in 1..Len(scanned[p])} : p \in 1..Len(scanned)} :
        scanned[pk[1]][pk[2]] \in Expected(call)}

\* C24: however the Scan cut the table into pages, the records returned are
\* the matching records of all the pages, each once, and they are in
\* ascending order of timestamp across the pages: a record of a later page
\* comes before a record of an earlier page when its timestamp is smaller.
C24_AllPagesDrained ==
    Queried
    => LET data == response.body.data
       IN  /\ \A pk \in MatchingReads(dynamoCalls[1]) :
                 \E i \in 1..Len(data) : MarshalMap(data[i]) = scanned[pk[1]][pk[2]]
           /\ Len(data) = Cardinality(MatchingReads(dynamoCalls[1]))
           /\ response.body.count = Cardinality(MatchingReads(dynamoCalls[1]))
           /\ \A i, j \in 1..Len(data) :
                 i < j => ~StrLess(data[j].timestamp, data[i].timestamp)

\* The Scan returned three pages of one matching item each, and the oldest
\* item on the last page: it is returned first.
C24_Witness ==
    /\ Queried
    /\ Len(scanned) = 3
    /\ \A p \in 1..3 : Len(scanned[p]) = 1
    /\ Cardinality(MatchingReads(dynamoCalls[1])) = 3
    /\ scanned[3][1].createdAt < scanned[1][1].createdAt
    /\ scanned[3][1].createdAt < scanned[2][1].createdAt
    /\ MarshalMap(response.body.data[1]) = scanned[3][1]

----------------------------------------------------------------------------
(* Further claims about the collector, under Spec *)

\* The table write of invocation i succeeds in this step.
WritesTable(i) == inv[i].pc = "WritingTable" /\ inv'[i].pc = "WritingBlob"

Rank(pc) ==
    CASE pc = "Idle" -> 0
      [] pc = "WritingTable" -> 1
      [] pc = "WritingBlob" -> 2
      [] OTHER -> 3

\* The request of the weather API did not yield a reading: a transport
\* error, a status other than 200, or a body that does not decode.
NoReadingFrom(http) == http.err \/ http.status # 200 \/ ~http.body.decodes

\* C26: in every step, an invocation that changes moves forward (it never
\* returns to a call it has made, and an ended invocation does nothing
\* more); the weather API is requested only by an invocation that begins,
\* the table is written only by the invocation that leaves its table write
\* and the bucket only by the invocation that leaves its blob write, so each
\* happens at most once in an invocation; and an invocation whose request
\* met a transport error, a status other than 200 or an undecodable body
\* ends at once with status 500, no record, and both stores as they were.
C26_NoStepIsRetried ==
    [][/\ \A i \in Invocations :
             /\ inv'[i] # inv[i] => Rank(inv'[i].pc) > Rank(inv[i].pc)
             /\ inv'[i].http # inv[i].http => inv[i].pc = "Idle"
             /\ \A m, n \in 1..Len(inv'[i].steps) :
                   inv'[i].steps[m] = inv'[i].steps[n] => m = n
             /\ (inv[i].pc = "Idle" /\ inv'[i].pc # "Idle" /\ NoReadingFrom(inv'[i].http))
                => /\ inv'[i].pc = "Failed"
                   /\ inv'[i].resp.statusCode = 500
                   /\ inv'[i].steps = <<"fetch">>
                   /\ inv'[i].record = NoRecord
                   /\ table' = table /\ blobs' = blobs
       /\ table' # table
          => \E i \in Invocations : inv[i].pc = "WritingTable" /\ inv'[i] # inv[i]
       /\ blobs' # blobs
          => \E i \in Invocations : inv[i].pc = "WritingBlob" /\ inv'[i] # inv[i]]_vars

\* The weather API answered the first invocation 401 and the second a body
\* that does not decode: both ended with 500 and nothing is stored.
C26_Witness ==
    /\ inv[1].pc = "Failed" /\ inv[1].http.status = 401
    /\ inv[1].resp.error = "weather API returned status"
    /\ inv[2].pc = "Failed" /\ inv[2].http.status = 200 /\ ~inv[2].http.body.decodes
    /\ inv[2].resp.error = "failed to parse weather API response"
    /\ inv[1].steps = <<"fetch">> /\ inv[2].steps = <<"fetch">>
    /\ table = {} /\ blobs = {}

\* The identifiers of the items of the table.
TableIDs == {item.id : item \in table}

\* C27: every envelope of the bucket has an identifier, in its body and in
\* its key, under which the table holds an item, after any interleaving of
\* invocations in which any step may fail.
C27_EnvelopeHasItsRecord ==
    \A o \in blobs :
       /\ o.data.record.id \in TableIDs
       /\ WellFormedKey(o.key) /\ KeyID(o.key) \in TableIDs

\* One invocation stored its record and its envelope; another, in another
\* second, stored its record and failed at its blob write: one envelope,
\* whose identifier the table holds, and one identifier more in the table.
C27_Witness ==
    /\ \E i, j \in Invocations :
          /\ FailedAt(i, "blob")
          /\ inv[j].pc = "Done"
          /\ inv[i].record.id # inv[j].record.id
          /\ EnvelopesOf(inv[j].record.id) # {}
          /\ EnvelopesOf(inv[i].record.id) = {}
    /\ Cardinality(blobs) = 1
    /\ Cardinality(TableIDs) = 2

\* C28: the year and the month-day in the key of every object of the bucket
\* are those of the timestamp of the record the object embeds, whatever
\* time passed between the mapping and the upload.
C28_KeyDateIsRecordDate ==
    \A o \in blobs :
       LET ts == o.data.record.timestamp
       IN  /\ WellFormedKey(o.key)
           /\ KeyYear(o.key) = SubSeq(ts, 1, 4)
           /\ KeyMonth(o.key) = TwoDigits(ts, 6)
           /\ KeyDay(o.key) = TwoDigits(ts, 9)

----------------------------------------------------------------------------
(* Claims about the city of a history query, under SpecRequest *)

\* C29: every query the history handler makes of the table is for a
\* non-empty city: for the default city when the request has no city
\* parameter or an empty one, and never for the empty string when the city
\* supplied sanitizes to the empty string.
C29_QueriedCityIsNonEmpty ==
    Answered
    => \A k \in 1..Len(dynamoCalls) :
          /\ dynamoCalls[k].city # <<>>
          /\ request.city = <<>> => dynamoCalls[k].city = DefaultCity

----------------------------------------------------------------------------
(* Further claims about sanitizeCityName, under SpecCity *)

\* C30: sanitizing a sanitized city changes nothing, and a sanitized city
\* neither starts nor ends with whitespace, also when the removal of
\* characters or the cut at the length limit leaves whitespace at an end.
C30_SanitizeIsIdempotent ==
    Sanitized
    => /\ sanitizeCityName(cityOut) = cityOut
       /\ cityOut # <<>> => ~IsSpace(cityOut[1]) /\ ~IsSpace(cityOut[Len(cityOut)])

====
